---- MODULE Spec2Model ----
(***************************************************************************)
(* Splittable DoFn execution on the direct runner:                         *)
(*   ProcessFn.process and SDFProcessElementInvoker.invoke_process_element *)
(*   (sdks/python/apache_beam/runners/direct/sdf_direct_runner.py).        *)
(*                                                                         *)
(* One key and one window are modelled.  A ProcessFn.process call is the   *)
(* main thread; the threading.Timer started by invoke_process_element is   *)
(* the alarm thread.  Python values are triples <<type, a, b>> so that     *)
(* truthiness (the `not x` / `if x` tests of the code) is computed the way *)
(* Python computes it.                                                     *)
(*                                                                         *)
(* Besides Spec and SpecScenario, the Splittable DoFn has                   *)
(*   SpecShared the Timer of the session before followed into the next     *)
(*              session of the same invoker;                               *)
(*   SpecLive   chains of sessions under fair scheduling.                  *)
(*                                                                         *)
(* Three further components have specifications of their own:              *)
(*   SpecCodec  the stream codec exercised by coders/stream_test.py        *)
(*              (OutputStream, ByteCountingOutputStream, InputStream),     *)
(*              on exact two's complement integers;                        *)
(*   SpecCell   CellCommitState with CounterCell.inc and                   *)
(*              DistributionCell.update (metrics/cells.py);                *)
(*   SpecPool   BeamFnExternalWorkerPoolServicer.StartWorker / StopWorker  *)
(*              (runners/worker/worker_pool_main.py).                      *)
(***************************************************************************)
EXTENDS Integers, Sequences, FiniteSets, TLC

\* ------------------------------------------------------------- bounds
\* largest stop of the small input restrictions [0, s)
MaxStop == 3
\* largest max_num_outputs the invoker is constructed with (0 stands for unset)
MaxNumOutputs == 2

\* ------------------------------------------------------------- Python values
None == <<"None", 0, 0>>
\* what get_state returns for a slot never written or cleared (an empty list)
EmptyList == <<"list", 0, 0>>
PyInt(n) == <<"int", n, 0>>
\* an offset-range restriction [a, b)
Range(a, b) == <<"range", a, b>>
\* the ProcessContinuation object a user routine may yield
Continuation == <<"ProcessContinuation", 0, 0>>
WATERMARK_POS_INF == <<"watermark", 1, 0>>
WATERMARK_NEG_INF == <<"watermark", -1, 0>>

\* Python truth value of a value: None, [] and 0 are false, every other object true
Truthy(v) ==
  CASE v[1] = "None" -> FALSE
    [] v[1] = "list" -> FALSE
    [] v[1] = "int" -> v[2] # 0
    [] OTHER -> TRUE

\* ------------------------------------------------------------- inputs
\* user elements; 0 is a legal element that is falsy in Python
Elements == {PyInt(0), PyInt(1)}
InputRestrictions == {Range(0, s) : s \in 1..MaxStop}
\* ElementAndRestriction(element, restriction)
ElementAndRestriction == [element : Elements, restriction : InputRestrictions]
\* the behaviours of the user's splittable process():
\*   claim_all    while tracker.try_claim(pos): yield pos; pos += 1
\*   continuation as claim_all, but may yield a ProcessContinuation and return
\*   early_return as claim_all, but may return before the tracker refused a claim
\*   after_marker as continuation, but produces one more item after the marker
SdfKinds == {"claim_all", "continuation", "early_return", "after_marker"}

Positions == 0..10
NoPos == 0 - 1

VARIABLES
  \* per-key-per-window state and timers (DirectStepContext keyed state)
  element_state, restriction_state, watermark_hold_state, timer_set,
  \* configuration: SDFProcessElementInvoker(max_num_outputs, ...), the user's sdf
  max_num_outputs, sdf,
  \* main thread: position in ProcessFn.process / invoke_process_element
  pc,
  \* locals of the current ProcessFn.process call
  element, restriction, tracker,
  \* locals of the current invoke_process_element session
  checkpoint_state, output_count, process_continuation, output, ic_site, m_tmp,
  \* the user routine's generator: next position to claim, marker already produced
  pos, marked,
  \* alarm thread of the session (threading.Timer running initiate_checkpoint)
  pc_alarm, a_tmp,
  \* what the call has produced: items yielded by invoke_process_element and by
  \* ProcessFn.process, the Result received, how the call ended
  inv_out, fn_out, sdf_result, outcome, error,
  \* history: items the user routine produced in this session, tracker.checkpoint()
  \* calls of the session and the value the first returned, outputs per position
  \* of the chain (0, 1, or 2 for more than one), the chain's original restriction, whether an alarm fired
  \* in the chain, whether a (key, values) input arrived while the chain's element
  \* was pending, state before the call, input kind
  produced, cp_calls, cp_first, emitted, orig, alarm_in_chain, collision_in_chain,
  pre, call_kind,
  \* history: tracker.check_done() calls of the session
  check_done_calls,
  \* stream codec: bytes of the OutputStream, count of the ByteCountingOutputStream
  \* given the same writes, the writes made, the InputStream (data and cursor),
  \* the values read back, phase of the write/read run
  out_data, bc_count, written, in_data, in_pos, read_back, codec_pc,
  \* metric cell: its class, CellCommitState._state, CounterCell.value (or the
  \* DistributionData count), position of the thread inside CounterCell.inc /
  \* DistributionCell.update, the last completed CellCommitState calls, the
  \* state the last of them found, what the
  \* last before_commit returned, whether after_modification completed since
  \* the last before_commit that returned True
  cell_kind, cell_state, cell_value, cell_pc, cell_calls, cell_before, cell_ret,
  cell_modified,
  \* history: DirectStepContext.set_timer calls of the current call
  set_timer_calls,
  \* the session before the current one, while its Timer has not finished: the
  \* Timer thread's position, its local, and the tracker and checkpoint_state
  \* its initiate_checkpoint closes over
  prior_pc_alarm, prior_a_tmp, prior_tracker, prior_checkpoint_state,
  \* worker pool: BeamFnExternalWorkerPoolServicer._use_process and
  \* ._worker_processes (worker id -> process), the processes created so far
  \* (process -> "running" or "exited"), the kill Timers started and not yet
  \* fired, the calls in progress, each with its request's worker id and its
  \* local worker_process (StartWorker calls between Popen and registration,
  \* StopWorker calls between pop and the Timer's start, StopWorker calls
  \* standing in communicate()), the last step of a call (its name, its
  \* request's worker id, how it ended, "none" while it has not), history: how
  \* the last ended request for each id left it
  use_process, worker_processes, processes, kill_timers, starting, stopping,
  communicating, pool_call, pool_id, pool_ret, started

store == <<element_state, restriction_state, watermark_hold_state, timer_set>>
config == <<max_num_outputs, sdf>>
mainv == <<pc, element, restriction, output_count, process_continuation, output,
           ic_site, m_tmp, pos, marked>>
sessionv == <<tracker, checkpoint_state>>
alarmv == <<pc_alarm, a_tmp>>
outv == <<inv_out, fn_out, sdf_result, outcome, error>>
histv == <<produced, cp_calls, cp_first, emitted, orig, alarm_in_chain,
           collision_in_chain, pre, call_kind>>
codecv == <<out_data, bc_count, written, in_data, in_pos, read_back, codec_pc>>
cellv == <<cell_kind, cell_state, cell_value, cell_pc, cell_calls, cell_before,
           cell_ret, cell_modified>>
\* the components a ProcessFn.process call does not touch
priorv == <<prior_pc_alarm, prior_a_tmp, prior_tracker, prior_checkpoint_state>>
poolv == <<use_process, worker_processes, processes, kill_timers, starting, stopping,
           communicating, pool_call, pool_id, pool_ret, started>>
otherv == <<codecv, cellv, poolv>>
sdfv == <<store, config, mainv, sessionv, alarmv, outv, histv, check_done_calls,
          set_timer_calls, priorv>>
vars == <<sdfv, otherv>>

\* ------------------------------------------------------------- restriction tracker
\* an offset-range tracker: cur is the last claimed position, last the last
\* position a claim was attempted for (NoPos when there is none)
NewTracker(r) == [start |-> r[2], stop |-> r[3], cur |-> NoPos, last |-> NoPos]
NoTracker == NewTracker(Range(0, 0))

TryClaimOk(t, p) == t.start <= p /\ p < t.stop
TryClaim(t, p) == [t EXCEPT !.last = p, !.cur = IF TryClaimOk(t, p) THEN p ELSE @]

\* checkpoint() returns the unclaimed remainder and truncates the tracker's range
CheckpointEnd(t) == IF t.cur = NoPos THEN t.start ELSE t.cur + 1
CheckpointResidual(t) == Range(CheckpointEnd(t), t.stop)
Checkpoint(t) == [t EXCEPT !.stop = CheckpointEnd(t)]

\* check_done() succeeds when no position of the (possibly truncated) range is
\* left unattempted
CheckDoneOk(t) == t.stop <= t.start \/ (t.last # NoPos /\ t.last >= t.stop - 1)

\* ------------------------------------------------------------- keyed state
\* a value slot: add_state overwrites, clear_state leaves what get_state returns
\* for a slot never written
get_state(slot) == slot
add_state(value) == value
clear_state == EmptyList

\* ------------------------------------------------------------- Result
Result(residual, continuation, watermark) ==
  [residual_restriction |-> residual, process_continuation |-> continuation,
   future_output_watermark |-> watermark]
NoResult == Result(None, None, None)
\* the Result object as an item of the sequence invoke_process_element yields
ResultItem == <<"Result", 0, 0>>
NewCheckpointState == [checkpointed |-> None, residual_restriction |-> None]
AnObject == <<"object", 0, 0>>

\* ------------------------------------------------------------- Python integers
\* A Python integer of the codec's range is held as the low 72 bits of its
\* two's complement form (bit 71 is the sign), so that 64-bit values and the
\* intermediate v + (1 << 64) are exact.
IntBits == 0..71
SignBit == 71

RECURSIVE Pow2(_)
Pow2(n) == IF n = 0 THEN 1 ELSE 2 * Pow2(n - 1)

\* a small integer, -2^30 < n < 2^30
FromSmall(n) ==
  [i \in IntBits |-> IF i < 30 THEN (n \div Pow2(i)) % 2 ELSE IF n < 0 THEN 1 ELSE 0]
\* 2^k - d, for 0 < d < 2^30 and 30 <= k <= 70
TwoToMinus(k, d) == [i \in IntBits |-> IF i < k THEN FromSmall(0 - d)[i] ELSE 0]
\* 2^k and -(2^k)
TwoTo(k) == [i \in IntBits |-> IF i = k THEN 1 ELSE 0]
MinusTwoTo(k) == [i \in IntBits |-> IF i >= k THEN 1 ELSE 0]
Zero == FromSmall(0)

IsNegative(v) == v[SignBit] = 1
IsZero(v) == \A i \in IntBits : v[i] = 0

\* the n bits of v from bit lo upwards, as a natural number (n <= 30)
RECURSIVE BitsToNat(_, _, _)
BitsToNat(v, lo, n) == IF n = 0 THEN 0 ELSE v[lo] + 2 * BitsToNat(v, lo + 1, n - 1)
NatBit(x, j) == (x \div Pow2(j)) % 2

\* v + k * (1 << 64): the bits below 64 stay, the eight bits above are added to
AddShifted64(v, k) ==
  LET h == (BitsToNat(v, 64, 8) + k) % 256
  IN  [i \in IntBits |-> IF i < 64 THEN v[i] ELSE NatBit(h, i - 64)]
\* v & 0x7F and v >> 7 (an arithmetic shift)
Low7(v) == BitsToNat(v, 0, 7)
Shr7(v) == [i \in IntBits |-> IF i + 7 <= SignBit THEN v[i + 7] ELSE v[SignBit]]
\* result | (bits << shift), for 0 <= bits < 128 and shift <= 63
OrShifted(result, bits, shift) ==
  [i \in IntBits |->
     IF i >= shift /\ i < shift + 7 /\ NatBit(bits, i - shift) = 1 THEN 1 ELSE result[i]]
\* result >= 1 << 63
AtLeastTwoTo63(v) == ~IsNegative(v) /\ \E i \in 63..(SignBit - 1) : v[i] = 1

\* ------------------------------------------------------------- stream codec
\* OutputStream.write_var_int64: a negative value is folded to v + 2^64, then
\* seven bits are written per byte, low group first, with 0x80 set on every
\* byte but the last
RECURSIVE VarIntGroups(_)
VarIntGroups(v) ==
  IF IsZero(Shr7(v)) THEN <<Low7(v)>> ELSE <<Low7(v) + 128>> \o VarIntGroups(Shr7(v))

VarIntFold(v) == IF IsNegative(v) THEN AddShifted64(v, 1) ELSE v
\* the fold of a value below -2^64 is not positive: write_var_int64 raises
VarIntWritable(v) == IsNegative(v) => (~IsNegative(VarIntFold(v)) /\ ~IsZero(VarIntFold(v)))
write_var_int64(v) == VarIntGroups(VarIntFold(v))

\* InputStream.read_var_int64 from cursor `at` of `data`: the groups are or-ed
\* together, a result at or above 2^63 is taken as negative
NoValue == [ok |-> FALSE, value |-> Zero, pos |-> 0]
VarIntUnfoldUnsigned(r) == r
VarIntUnfold(r) == IF AtLeastTwoTo63(r) THEN AddShifted64(r, 0 - 1) ELSE r
RECURSIVE ReadVarIntLoop(_, _, _, _)
ReadVarIntLoop(data, at, shift, result) ==
  IF at >= Len(data) THEN NoValue
  ELSE LET byte == data[at + 1]
           bits == byte % 128
       IN  IF shift >= 64 \/ (shift >= 63 /\ bits > 1) THEN NoValue
           ELSE IF byte >= 128
                THEN ReadVarIntLoop(data, at + 1, shift + 7, OrShifted(result, bits, shift))
                ELSE [ok |-> TRUE,
                      value |-> VarIntUnfold(OrShifted(result, bits, shift)),
                      pos |-> at + 1]
read_var_int64(data, at) == ReadVarIntLoop(data, at, 0, Zero)

\* struct.pack('>i' / '>q' / '>Q'): n bytes, most significant first; a value
\* outside the format's range raises
InSignedRange(v, n) == \A i \in (8 * n - 1)..SignBit : v[i] = v[SignBit]
InUnsignedRange(v, n) == \A i \in (8 * n)..SignBit : v[i] = 0
Pack(v, n) == [k \in 1..n |-> BitsToNat(v, 8 * (n - k), 8)]
\* struct.unpack: the bytes give the low 8n bits, the rest is the sign (signed
\* formats) or zero (unsigned formats)
UnpackZeroExtends(bytes, signed) ==
  LET n == Len(bytes)
  IN  [i \in IntBits |-> IF i < 8 * n THEN NatBit(bytes[n - (i \div 8)], i % 8) ELSE 0]
Unpack(bytes, signed) ==
  LET n == Len(bytes)
      low == [i \in 0..(8 * n - 1) |-> NatBit(bytes[n - (i \div 8)], i % 8)]
  IN  [i \in IntBits |->
         IF i < 8 * n THEN low[i] ELSE IF signed THEN low[8 * n - 1] ELSE 0]

\* InputStream.read(size): the next size bytes
read(data, at, size) == SubSeq(data, at + 1, at + size)

\* one write made on a stream
WriteOp(kind, int, bytes, nested) ==
  [kind |-> kind, int |-> int, bytes |-> bytes, nested |-> nested]

\* OutputStream: what a write appends to the stream's bytes
\*   write(b, nested)          the length as a varint when nested, then b
\*   write_byte(val)           one byte
\*   write_bigendian_*(v)      write(struct.pack(format, v))
OutputStreamWrite(data, op) ==
  CASE op.kind = "write" ->
         data \o (IF op.nested THEN write_var_int64(FromSmall(Len(op.bytes))) ELSE <<>>)
              \o op.bytes
    [] op.kind = "write_byte" -> Append(data, op.bytes[1])
    [] op.kind = "var_int64" -> data \o write_var_int64(op.int)
    [] op.kind = "bigendian_int32" -> data \o Pack(op.int, 4)
    [] OTHER -> data \o Pack(op.int, 8)

\* ByteCountingOutputStream: write adds the length of b, after the inherited
\* write_var_int64 of that length when nested; write_byte adds one; the
\* inherited write_var_int64 calls write_byte once per byte and the inherited
\* write_bigendian_* call write with the packed bytes
ByteCountingNestedCountsPayloadOnly(count, op) ==
  CASE op.kind = "write" -> count + Len(op.bytes)
    [] op.kind = "write_byte" -> count + 1
    [] op.kind = "var_int64" -> count + Len(write_var_int64(op.int))
    [] op.kind = "bigendian_int32" -> count + Len(Pack(op.int, 4))
    [] OTHER -> count + Len(Pack(op.int, 8))
ByteCountingWrite(count, op) ==
  CASE op.kind = "write" ->
         (IF op.nested THEN count + Len(write_var_int64(FromSmall(Len(op.bytes))))
                       ELSE count) + Len(op.bytes)
    [] op.kind = "write_byte" -> count + 1
    [] op.kind = "var_int64" -> count + Len(write_var_int64(op.int))
    [] op.kind = "bigendian_int32" -> count + Len(Pack(op.int, 4))
    [] OTHER -> count + Len(Pack(op.int, 8))

\* the stream objects of a ProcessFn run that does not use the codec
CodecIdle ==
  /\ out_data = <<>>
  /\ bc_count = 0
  /\ written = <<>>
  /\ in_data = <<>>
  /\ in_pos = 0
  /\ read_back = <<>>
  /\ codec_pc = "idle"

\* ------------------------------------------------------------- metric cells
\* CellCommitState.DIRTY, CLEAN, COMMITTING
DIRTY == 0
CLEAN == 1
COMMITTING == 2
\* largest value a CounterCell (or the count of a DistributionCell) is driven to
MaxCellValue == 2

\* the last three completed CellCommitState calls, oldest first
Logged(calls, c) == IF Len(calls) < 3 THEN Append(calls, c) ELSE Append(Tail(calls), c)

\* no metric cell exists in a ProcessFn run
CellIdle ==
  /\ cell_kind = "none"
  /\ cell_state = DIRTY
  /\ cell_value = 0
  /\ cell_pc = "idle"
  /\ cell_calls = <<>>
  /\ cell_before = DIRTY
  /\ cell_ret = "none"
  /\ cell_modified = FALSE

\* ------------------------------------------------------------- worker pool
\* most worker ids and most processes created in one run
MaxWorkerId == 2
MaxProcesses == 2
WorkerIds == 1..MaxWorkerId

\* BeamFnExternalWorkerPoolServicer.__init__: no process is registered
NewPool(mode) ==
  /\ use_process = mode
  /\ worker_processes = <<>>
  /\ processes = <<>>
  /\ kill_timers = {}
  /\ starting = {}
  /\ stopping = {}
  /\ communicating = {}
  /\ pool_call = "none"
  /\ pool_id = 0
  /\ pool_ret = "none"
  /\ started = [i \in WorkerIds |-> "never"]


InitWith(m, k) ==
  /\ max_num_outputs = m
  /\ sdf = k
  /\ element_state = EmptyList
  /\ restriction_state = EmptyList
  /\ watermark_hold_state = EmptyList
  /\ timer_set = FALSE
  /\ pc = "idle"
  /\ element = None
  /\ restriction = None
  /\ tracker = NoTracker
  /\ checkpoint_state = NewCheckpointState
  /\ output_count = 0
  /\ process_continuation = None
  /\ output = None
  /\ ic_site = "none"
  /\ m_tmp = None
  /\ pos = 0
  /\ marked = FALSE
  /\ pc_alarm = "none"
  /\ a_tmp = None
  /\ inv_out = <<>>
  /\ fn_out = <<>>
  /\ sdf_result = NoResult
  /\ outcome = "none"
  /\ error = "none"
  /\ produced = <<>>
  /\ cp_calls = 0
  /\ cp_first = None
  /\ emitted = [p \in Positions |-> 0]
  /\ orig = None
  /\ alarm_in_chain = FALSE
  /\ collision_in_chain = FALSE
  /\ pre = store
  /\ call_kind = "none"
  /\ check_done_calls = 0
  /\ set_timer_calls = 0
  /\ prior_pc_alarm = "none"
  /\ prior_a_tmp = None
  /\ prior_tracker = NoTracker
  /\ prior_checkpoint_state = NewCheckpointState

Init ==
  \E m \in 0..MaxNumOutputs, k \in SdfKinds :
    InitWith(m, k) /\ CodecIdle /\ CellIdle /\ NewPool(FALSE)

\* the call ends (normally or by an exception): the generator's locals are gone
EndCall(how, err) ==
  /\ pc' = "idle"
  /\ outcome' = how
  /\ error' = err
  /\ output_count' = 0
  /\ output' = None
  /\ ic_site' = "none"
  /\ m_tmp' = None
  /\ pos' = 0
  /\ marked' = FALSE
  /\ process_continuation' = None


\* ------------------------------------------------------------- ProcessFn.process
\* not element_state (line 153)
is_seed_call == ~Truthy(get_state(element_state))

\* lines 133-179 and, at the first next() of the invoker's generator, 284-313:
\* the input is resolved against the state, a tracker is created for the
\* restriction, the alarm is started.  A bare key (kind "timer") is delivered
\* only for an armed timer, which delivery consumes.
\* A seed call taken for a bare key reads the unbound local `value` (line 162).
\* The Timer of the session before, when it has not finished, lives on with
\* that session's tracker and checkpoint_state: a step that starts a session
\* either follows it (FollowPriorAlarm) or forgets it (ForgetPriorAlarm).
ProcessBegin(kind, value) ==
  /\ pc = "idle"
  /\ kind = "timer" => timer_set
  /\ timer_set' = IF kind = "timer" THEN FALSE ELSE timer_set
  /\ UNCHANGED <<element_state, restriction_state, watermark_hold_state, config, otherv>>
  /\ check_done_calls' = 0
  /\ set_timer_calls' = 0
  /\ pre' = <<element_state, restriction_state, watermark_hold_state, timer_set'>>
  /\ call_kind' = kind
  /\ inv_out' = <<>>
  /\ fn_out' = <<>>
  /\ produced' = <<>>
  /\ sdf_result' = NoResult
  /\ IF is_seed_call /\ kind = "timer"
     THEN /\ EndCall("error", "UnboundLocalError")
          /\ UNCHANGED <<element, restriction, sessionv, alarmv, cp_calls, cp_first,
                         emitted, orig, alarm_in_chain, collision_in_chain>>
     ELSE /\ element' = IF is_seed_call THEN value.element
                        ELSE get_state(element_state)
          /\ restriction' = IF is_seed_call THEN value.restriction
                            ELSE get_state(restriction_state)
          /\ tracker' = NewTracker(restriction')
          /\ checkpoint_state' = NewCheckpointState
          /\ pc_alarm' = "waiting"
          /\ a_tmp' = None
          /\ output_count' = 0
          /\ process_continuation' = None
          /\ output' = None
          /\ ic_site' = "none"
          /\ m_tmp' = None
          /\ pos' = restriction'[2]
          /\ marked' = FALSE
          /\ pc' = "pull"
          /\ outcome' = "running"
          /\ error' = "none"
          /\ cp_calls' = 0
          /\ cp_first' = None
          /\ IF is_seed_call
             THEN /\ orig' = restriction'
                  /\ emitted' = [p \in Positions |-> 0]
                  /\ alarm_in_chain' = FALSE
                  /\ collision_in_chain' = FALSE
             ELSE /\ collision_in_chain' = (collision_in_chain \/ kind = "kv")
                  /\ UNCHANGED <<orig, emitted, alarm_in_chain>>

\* ------------------------------------------------------------- the user's process()
\* the generator runs to its next yield or to its end; tracker.try_claim is the
\* only thing it shares with the alarm thread
UserClaim ==
  /\ pc = "pull" /\ ~marked
  /\ tracker' = TryClaim(tracker, pos)
  /\ IF TryClaimOk(tracker, pos)
     THEN /\ output' = PyInt(pos)
          /\ produced' = Append(produced, PyInt(pos))
          /\ pos' = pos + 1
          /\ pc' = "got"
     ELSE /\ pc' = "exhausted"
          /\ UNCHANGED <<output, produced, pos>>
  /\ UNCHANGED <<store, config, otherv, priorv, check_done_calls, set_timer_calls, element, restriction, output_count,
                 process_continuation, ic_site, m_tmp, marked, checkpoint_state,
                 alarmv, outv, cp_calls, cp_first, emitted, orig,
                 alarm_in_chain, collision_in_chain, pre, call_kind>>

\* the routine yields a ProcessContinuation instead of claiming further
UserContinuation ==
  /\ pc = "pull" /\ ~marked
  /\ sdf \in {"continuation", "after_marker"}
  /\ output' = Continuation
  /\ produced' = Append(produced, Continuation)
  /\ marked' = TRUE
  /\ pc' = "got"
  /\ UNCHANGED <<store, config, otherv, priorv, check_done_calls, set_timer_calls, element, restriction, output_count,
                 process_continuation, ic_site, m_tmp, pos, sessionv,
                 alarmv, outv, cp_calls, cp_first, emitted, orig,
                 alarm_in_chain, collision_in_chain, pre, call_kind>>

\* the routine returns: after its marker, or (early_return) with work unclaimed
UserReturn ==
  /\ pc = "pull"
  /\ \/ marked /\ sdf = "continuation"
     \/ ~marked /\ sdf = "early_return"
  /\ pc' = "exhausted"
  /\ UNCHANGED <<store, config, otherv, priorv, check_done_calls, set_timer_calls, element, restriction, output_count,
                 process_continuation, output, ic_site, m_tmp, pos, marked,
                 sessionv, alarmv, outv, histv>>

\* the routine produces one more item after its marker: an output or a marker
UserAfterMarker(item) ==
  /\ pc = "pull" /\ marked
  /\ sdf = "after_marker"
  /\ output' = item
  /\ produced' = Append(produced, item)
  /\ pc' = "got"
  /\ UNCHANGED <<store, config, otherv, priorv, check_done_calls, set_timer_calls, element, restriction, output_count,
                 process_continuation, ic_site, m_tmp, pos, marked, sessionv,
                 alarmv, outv, cp_calls, cp_first, emitted, orig,
                 alarm_in_chain, collision_in_chain, pre, call_kind>>


\* ------------------------------------------------------------- invoke_process_element
\* line 316 without its effect: the assertion never fails
ContinuationNeverSeen == FALSE

\* line 316: assert not process_continuation
ContinuationSeen == Truthy(process_continuation)

\* line 333 with > for >=: the limit is noticed one output late
LimitReachedLate(count) == Truthy(PyInt(max_num_outputs)) /\ count > max_num_outputs

\* line 333: self._max_num_outputs and output_count >= self._max_num_outputs
LimitReached(count) == Truthy(PyInt(max_num_outputs)) /\ count >= max_num_outputs

\* line 316 fails: an item arrived after a ProcessContinuation
AssertContinuationLast ==
  /\ pc = "got"
  /\ ContinuationSeen
  /\ EndCall("error", "AssertionError")
  /\ UNCHANGED <<store, config, otherv, priorv, check_done_calls, set_timer_calls, element, restriction, sessionv, alarmv, inv_out,
                 fn_out, sdf_result, histv>>

\* lines 317-320: a ProcessContinuation enters initiate_checkpoint; it is recorded
\* (line 328) when that returns
TakeContinuation ==
  /\ pc = "got"
  /\ ~ContinuationSeen
  /\ output = Continuation
  /\ ic_site' = "cont"
  /\ pc' = "ic_check"
  /\ UNCHANGED <<store, config, otherv, priorv, check_done_calls, set_timer_calls, element, restriction, output_count,
                 process_continuation, output, m_tmp, pos, marked, sessionv, alarmv,
                 outv, histv>>

\* YieldOutput with the limit tested before the yield: the output that reaches
\* the limit is counted but never yielded
YieldOutputNotAtLimit ==
  /\ pc = "got"
  /\ ~ContinuationSeen
  /\ output # Continuation
  /\ IF LimitReached(output_count + 1)
     THEN UNCHANGED <<inv_out, fn_out, emitted>>
     ELSE /\ inv_out' = Append(inv_out, output)
          /\ fn_out' = Append(fn_out, output)
          /\ emitted' = [emitted EXCEPT ![output[2]] = IF @ < 2 THEN @ + 1 ELSE @]
  /\ pc' = "yielded"
  /\ UNCHANGED store
  /\ UNCHANGED <<config, otherv, priorv, check_done_calls, set_timer_calls, element,
                 restriction, output_count, process_continuation, output, ic_site, m_tmp,
                 pos, marked, sessionv, alarmv, sdf_result, outcome, error, produced,
                 cp_calls, cp_first, orig, alarm_in_chain, collision_in_chain, pre,
                 call_kind>>

\* YieldOutput with the watermark hold recorded as each output is yielded
YieldOutputHoldsWatermark ==
  /\ pc = "got"
  /\ ~ContinuationSeen
  /\ output # Continuation
  /\ inv_out' = Append(inv_out, output)
  /\ fn_out' = Append(fn_out, output)
  /\ emitted' = [emitted EXCEPT ![output[2]] = IF @ < 2 THEN @ + 1 ELSE @]
  /\ pc' = "yielded"
  /\ watermark_hold_state' = add_state(WATERMARK_NEG_INF)
  /\ UNCHANGED <<element_state, restriction_state, timer_set>>
  /\ UNCHANGED <<config, otherv, priorv, check_done_calls, set_timer_calls, element,
                 restriction, output_count, process_continuation, output, ic_site, m_tmp,
                 pos, marked, sessionv, alarmv, sdf_result, outcome, error, produced,
                 cp_calls, cp_first, orig, alarm_in_chain, collision_in_chain, pre,
                 call_kind>>

\* line 331 and ProcessFn.process 182-187: the output is yielded to
\* ProcessFn.process, which yields it to its caller; both generators are
\* suspended at their yield while the caller holds the item
YieldOutput ==
  /\ pc = "got"
  /\ ~ContinuationSeen
  /\ output # Continuation
  /\ inv_out' = Append(inv_out, output)
  /\ fn_out' = Append(fn_out, output)
  /\ emitted' = [emitted EXCEPT ![output[2]] = IF @ < 2 THEN @ + 1 ELSE @]
  /\ pc' = "yielded"
  /\ UNCHANGED store
  /\ UNCHANGED <<config, otherv, priorv, check_done_calls, set_timer_calls, element,
                 restriction, output_count, process_continuation, output, ic_site, m_tmp,
                 pos, marked, sessionv, alarmv, sdf_result, outcome, error, produced,
                 cp_calls, cp_first, orig, alarm_in_chain, collision_in_chain, pre,
                 call_kind>>

\* lines 332-334, at the caller's next next(): the output is counted and the
\* limit is tested; at the limit initiate_checkpoint is entered
CountOutput ==
  /\ pc = "yielded"
  /\ output_count' = output_count + 1
  /\ IF LimitReached(output_count')
     THEN ic_site' = "limit" /\ pc' = "ic_check"
     ELSE ic_site' = "none" /\ pc' = "pull"
  /\ UNCHANGED <<store, config, otherv, priorv, check_done_calls, set_timer_calls, element,
                 restriction, process_continuation, output, m_tmp, pos, marked, sessionv,
                 alarmv, outv, histv>>

\* initiate_checkpoint returns to the loop: line 328 after a marker, the next
\* iteration after the output limit
ReturnFromCheckpoint ==
  /\ process_continuation' = IF ic_site = "cont" THEN output ELSE process_continuation
  /\ ic_site' = "none"
  /\ pc' = "pull"

\* MainCheck without lines 297-298: the flag is not looked at
MainCheckIgnoresFlag ==
  /\ pc = "ic_check"
  /\ pc' = "ic_call"
  /\ UNCHANGED <<process_continuation, ic_site>>
  /\ UNCHANGED <<store, config, otherv, priorv, check_done_calls, set_timer_calls, element, restriction, output_count,
                 output, m_tmp, pos, marked, sessionv, alarmv, outv, histv>>

\* lines 296-298 on the main thread: the flag is read under _checkpoint_lock,
\* which is released before anything else happens
MainCheck ==
  /\ pc = "ic_check"
  /\ IF Truthy(checkpoint_state.checkpointed)
     THEN ReturnFromCheckpoint
     ELSE pc' = "ic_call" /\ UNCHANGED <<process_continuation, ic_site>>
  /\ UNCHANGED <<store, config, otherv, priorv, check_done_calls, set_timer_calls, element, restriction, output_count, output, m_tmp,
                 pos, marked, sessionv, alarmv, outv, histv>>

\* line 299, the call: tracker.checkpoint()
MainCall ==
  /\ pc = "ic_call"
  /\ m_tmp' = CheckpointResidual(tracker)
  /\ tracker' = Checkpoint(tracker)
  /\ cp_calls' = cp_calls + 1
  /\ cp_first' = IF cp_calls = 0 THEN CheckpointResidual(tracker) ELSE cp_first
  /\ pc' = "ic_store"
  /\ UNCHANGED <<store, config, otherv, priorv, check_done_calls, set_timer_calls, element, restriction, output_count,
                 process_continuation, output, ic_site, pos, marked, checkpoint_state,
                 alarmv, outv, produced, emitted, orig, alarm_in_chain, collision_in_chain, pre,
                 call_kind>>

\* line 299, the assignment to checkpoint_state.residual_restriction
MainStore ==
  /\ pc = "ic_store"
  /\ checkpoint_state' = [checkpoint_state EXCEPT !.residual_restriction = m_tmp]
  /\ pc' = "ic_flag"
  /\ UNCHANGED <<store, config, otherv, priorv, check_done_calls, set_timer_calls, element, restriction, output_count,
                 process_continuation, output, ic_site, m_tmp, pos, marked, tracker,
                 alarmv, outv, histv>>

\* line 300: checkpoint_state.checkpointed = object()
MainFlag ==
  /\ pc = "ic_flag"
  /\ checkpoint_state' = [checkpoint_state EXCEPT !.checkpointed = AnObject]
  /\ ReturnFromCheckpoint
  /\ m_tmp' = None
  /\ UNCHANGED <<store, config, otherv, priorv, check_done_calls, set_timer_calls, element, restriction, output_count, output, pos,
                 marked, tracker, alarmv, outv, histv>>

\* ------------------------------------------------------------- the alarm thread
\* Timer(self._max_duration, initiate_checkpoint) fires: lines 296-298
AlarmCheck ==
  /\ pc_alarm = "waiting"
  /\ pc_alarm' = IF Truthy(checkpoint_state.checkpointed) THEN "done" ELSE "a_call"
  /\ alarm_in_chain' = TRUE
  /\ UNCHANGED <<store, config, otherv, priorv, check_done_calls, set_timer_calls, mainv, sessionv, a_tmp, outv, produced, cp_calls,
                 cp_first, emitted, orig, collision_in_chain, pre, call_kind>>

AlarmCall ==
  /\ pc_alarm = "a_call"
  /\ a_tmp' = CheckpointResidual(tracker)
  /\ tracker' = Checkpoint(tracker)
  /\ cp_calls' = cp_calls + 1
  /\ cp_first' = IF cp_calls = 0 THEN CheckpointResidual(tracker) ELSE cp_first
  /\ pc_alarm' = "a_store"
  /\ UNCHANGED <<store, config, otherv, priorv, check_done_calls, set_timer_calls, mainv, checkpoint_state, outv, produced, emitted,
                 orig, alarm_in_chain, collision_in_chain, pre, call_kind>>

AlarmStore ==
  /\ pc_alarm = "a_store"
  /\ checkpoint_state' = [checkpoint_state EXCEPT !.residual_restriction = a_tmp]
  /\ pc_alarm' = "a_flag"
  /\ UNCHANGED <<store, config, otherv, priorv, check_done_calls, set_timer_calls, mainv, tracker, a_tmp, outv, histv>>

AlarmFlag ==
  /\ pc_alarm = "a_flag"
  /\ checkpoint_state' = [checkpoint_state EXCEPT !.checkpointed = AnObject]
  /\ pc_alarm' = "done"
  /\ a_tmp' = None
  /\ UNCHANGED <<store, config, otherv, priorv, check_done_calls, set_timer_calls, mainv, tracker, outv, histv>>

\* ------------------------------------------------------------- the Timer of the session before
\* Line 303 starts a Timer per session and nothing cancels it: when the next
\* session starts, the Timer of the session before may still be waiting or be
\* inside initiate_checkpoint.  Its closure holds the checkpoint_state (line
\* 293) and the tracker of its own session.
AlarmPending == {"waiting", "a_call", "a_store", "a_flag"}

\* the Timer of the session before is left out of the state
ForgetPriorAlarm == UNCHANGED priorv

\* the Timer of the session that has just ended is kept when it has not
\* finished; one Timer of an earlier session is followed at a time
FollowPriorAlarm ==
  IF pc' = "pull" /\ pc_alarm \in AlarmPending
  THEN /\ prior_pc_alarm' = pc_alarm
       /\ prior_a_tmp' = a_tmp
       /\ prior_tracker' = tracker
       /\ prior_checkpoint_state' = checkpoint_state
  ELSE UNCHANGED priorv

\* lines 296-298 in the Timer of the session before
PriorAlarmCheck ==
  /\ prior_pc_alarm = "waiting"
  /\ prior_pc_alarm' = IF Truthy(prior_checkpoint_state.checkpointed) THEN "done" ELSE "a_call"
  /\ UNCHANGED <<prior_a_tmp, prior_tracker, prior_checkpoint_state>>
  /\ UNCHANGED <<store, config, otherv, mainv, sessionv, alarmv, outv, histv,
                 check_done_calls, set_timer_calls>>

\* line 299, the call, on the tracker of the session before
PriorAlarmCall ==
  /\ prior_pc_alarm = "a_call"
  /\ prior_a_tmp' = CheckpointResidual(prior_tracker)
  /\ prior_tracker' = Checkpoint(prior_tracker)
  /\ prior_pc_alarm' = "a_store"
  /\ UNCHANGED prior_checkpoint_state
  /\ UNCHANGED <<store, config, otherv, mainv, sessionv, alarmv, outv, histv,
                 check_done_calls, set_timer_calls>>

\* line 299, the assignment, on the checkpoint_state of the session before
PriorAlarmStore ==
  /\ prior_pc_alarm = "a_store"
  /\ prior_checkpoint_state' =
       [prior_checkpoint_state EXCEPT !.residual_restriction = prior_a_tmp]
  /\ prior_pc_alarm' = "a_flag"
  /\ UNCHANGED <<prior_a_tmp, prior_tracker>>
  /\ UNCHANGED <<store, config, otherv, mainv, sessionv, alarmv, outv, histv,
                 check_done_calls, set_timer_calls>>

\* PriorAlarmFlag with the flag kept on the invoker, which the sessions share,
\* instead of in the CheckpointState each session creates
PriorAlarmFlagOnInvoker ==
  /\ prior_pc_alarm = "a_flag"
  /\ checkpoint_state' = [checkpoint_state EXCEPT !.checkpointed = AnObject]
  /\ prior_pc_alarm' = "done"
  /\ prior_a_tmp' = None
  /\ UNCHANGED <<prior_tracker, prior_checkpoint_state, tracker>>
  /\ UNCHANGED <<store, config, otherv, mainv, alarmv, outv, histv,
                 check_done_calls, set_timer_calls>>

\* line 300 on the checkpoint_state of the session before
PriorAlarmFlag ==
  /\ prior_pc_alarm = "a_flag"
  /\ prior_checkpoint_state' = [prior_checkpoint_state EXCEPT !.checkpointed = AnObject]
  /\ prior_pc_alarm' = "done"
  /\ prior_a_tmp' = None
  /\ UNCHANGED prior_tracker
  /\ UNCHANGED <<store, config, otherv, mainv, sessionv, alarmv, outv, histv,
                 check_done_calls, set_timer_calls>>

\* ------------------------------------------------------------- end of the session
\* CheckDone with the error of check_done() swallowed: the Result is built anyway
CheckDoneSwallowed ==
  /\ pc = "exhausted"
  /\ pc' = "build"
  /\ check_done_calls' = check_done_calls + 1
  /\ UNCHANGED <<output_count, process_continuation, output, ic_site, m_tmp,
                 pos, marked, outcome, error>>
  /\ UNCHANGED <<store, config, otherv, priorv, set_timer_calls, element, restriction,
                 sessionv, alarmv, inv_out, fn_out, sdf_result, histv>>

\* CheckDone made only when the session took no checkpoint
CheckDoneSkippedAfterCheckpoint ==
  /\ pc = "exhausted"
  /\ IF Truthy(checkpoint_state.checkpointed)
     THEN /\ pc' = "build"
          /\ UNCHANGED <<output_count, process_continuation, output, ic_site, m_tmp,
                         pos, marked, outcome, error, check_done_calls>>
     ELSE /\ check_done_calls' = check_done_calls + 1
          /\ IF CheckDoneOk(tracker)
             THEN /\ pc' = "build"
                  /\ UNCHANGED <<output_count, process_continuation, output, ic_site,
                                 m_tmp, pos, marked, outcome, error>>
             ELSE EndCall("error", "ValueError")
  /\ UNCHANGED <<store, config, otherv, priorv, set_timer_calls, element, restriction,
                 sessionv, alarmv, inv_out, fn_out, sdf_result, histv>>

\* line 336: tracker.check_done() raises when work is left unclaimed
CheckDone ==
  /\ pc = "exhausted"
  /\ check_done_calls' = check_done_calls + 1
  /\ IF CheckDoneOk(tracker)
     THEN /\ pc' = "build"
          /\ UNCHANGED <<output_count, process_continuation, output, ic_site, m_tmp,
                         pos, marked, outcome, error>>
     ELSE EndCall("error", "ValueError")
  /\ UNCHANGED <<store, config, otherv, priorv, set_timer_calls, element, restriction,
                 sessionv, alarmv, inv_out, fn_out, sdf_result, histv>>

\* BuildResult with ProcessFn.process yielding the Result like any other item
BuildResultYielded ==
  /\ pc = "build"
  /\ sdf_result' = IF Truthy(checkpoint_state.residual_restriction)
                   THEN Result(checkpoint_state.residual_restriction, None, None)
                   ELSE NoResult
  /\ inv_out' = Append(inv_out, ResultItem)
  /\ fn_out' = Append(fn_out, ResultItem)
  /\ pc' = "post"
  /\ UNCHANGED <<store, config, otherv, priorv, check_done_calls, set_timer_calls, element, restriction, output_count,
                 process_continuation, output, ic_site, m_tmp, pos, marked, sessionv,
                 alarmv, outcome, error, histv>>

\* lines 337-342 and ProcessFn.process 182-186: the Result is built from the
\* captured residual and yielded; ProcessFn.process keeps it and leaves its loop
BuildResult ==
  /\ pc = "build"
  /\ sdf_result' = IF Truthy(checkpoint_state.residual_restriction)
                   THEN Result(checkpoint_state.residual_restriction, None, None)
                   ELSE NoResult
  /\ inv_out' = Append(inv_out, ResultItem)
  /\ pc' = "post"
  /\ UNCHANGED <<store, config, otherv, priorv, check_done_calls, set_timer_calls, element, restriction, output_count,
                 process_continuation, output, ic_site, m_tmp, pos, marked, sessionv,
                 alarmv, fn_out, outcome, error, histv>>

\* PostNoResidual without line 196: the restriction slot keeps the old residual
PostNoResidualKeepsRestriction ==
  /\ element_state' = clear_state
  /\ watermark_hold_state' = add_state(WATERMARK_POS_INF)
  /\ UNCHANGED <<restriction_state, timer_set, set_timer_calls>>

\* lines 193-199: no residual
PostNoResidual ==
  /\ element_state' = clear_state
  /\ restriction_state' = clear_state
  /\ watermark_hold_state' = add_state(WATERMARK_POS_INF)
  /\ UNCHANGED <<timer_set, set_timer_calls>>

\* PostResidual writing the restriction the session started from instead of
\* the residual of its Result
PostResidualStoresRestriction ==
  /\ element_state' = add_state(element)
  /\ restriction_state' = add_state(restriction)
  /\ watermark_hold_state' = add_state(WATERMARK_NEG_INF)
  /\ timer_set' = TRUE
  /\ set_timer_calls' = set_timer_calls + 1

\* PostResidual without lines 212-215: the residual is stored, no timer is set
PostResidualArmsNoTimer ==
  /\ element_state' = add_state(element)
  /\ restriction_state' = add_state(sdf_result.residual_restriction)
  /\ watermark_hold_state' = add_state(WATERMARK_NEG_INF)
  /\ UNCHANGED <<timer_set, set_timer_calls>>

\* lines 200-215: a residual is left
PostResidual ==
  /\ element_state' = add_state(element)
  /\ restriction_state' = add_state(sdf_result.residual_restriction)
  /\ watermark_hold_state' = add_state(WATERMARK_NEG_INF)
  /\ timer_set' = TRUE
  /\ set_timer_calls' = set_timer_calls + 1

\* lines 189-215 of ProcessFn.process
PostSession ==
  /\ pc = "post"
  /\ IF ~Truthy(sdf_result.residual_restriction) THEN PostNoResidual ELSE PostResidual
  /\ EndCall("ok", "none")
  /\ UNCHANGED <<config, otherv, priorv, check_done_calls, element, restriction, sessionv,
                 alarmv, inv_out, fn_out, sdf_result, histv>>

NoValues == [element |-> None, restriction |-> None]

Next ==
  \/ \E v \in ElementAndRestriction : ProcessBegin("kv", v) /\ ForgetPriorAlarm
  \/ \E v \in {NoValues} : ProcessBegin("timer", v) /\ ForgetPriorAlarm
  \/ UserClaim
  \/ UserContinuation
  \/ UserReturn
  \/ \E item \in {Continuation, PyInt(pos)} : UserAfterMarker(item)
  \/ AssertContinuationLast
  \/ TakeContinuation
  \/ YieldOutput
  \/ CountOutput
  \/ MainCheck
  \/ MainCall
  \/ MainStore
  \/ MainFlag
  \/ AlarmCheck
  \/ AlarmCall
  \/ AlarmStore
  \/ AlarmFlag
  \/ CheckDone
  \/ BuildResult
  \/ PostSession

Spec == Init /\ [][Next]_vars

\* The scenario of the integer range [0, 10) with max_num_outputs = 3, a routine
\* that claims in order until try_claim fails; alarm_in_chain tells the chains in
\* which the alarm fired from those in which it did not.
InitScenario == InitWith(3, "claim_all") /\ CodecIdle /\ CellIdle /\ NewPool(FALSE)

NextScenario ==
  \/ \E e \in Elements :
       ProcessBegin("kv", [element |-> e, restriction |-> Range(0, 10)]) /\ ForgetPriorAlarm
  \/ \E v \in {NoValues} : ProcessBegin("timer", v) /\ ForgetPriorAlarm
  \/ UserClaim
  \/ YieldOutput
  \/ CountOutput
  \/ MainCheck
  \/ MainCall
  \/ MainStore
  \/ MainFlag
  \/ AlarmCheck
  \/ AlarmCall
  \/ AlarmStore
  \/ AlarmFlag
  \/ CheckDone
  \/ BuildResult
  \/ PostSession

SpecScenario == InitScenario /\ [][NextScenario]_vars

\* Sessions that follow one another on one invoker, the Timer of the session
\* before followed into the next session; elements with the restriction
\* [0, 2), no output limit or a limit of one, a routine that claims in order
\* until try_claim fails.
InitShared ==
  \E m \in {0, 1} : InitWith(m, "claim_all") /\ CodecIdle /\ CellIdle /\ NewPool(FALSE)

NextShared ==
  \/ \E e \in Elements :
       ProcessBegin("kv", [element |-> e, restriction |-> Range(0, 2)]) /\ FollowPriorAlarm
  \/ \E v \in {NoValues} : ProcessBegin("timer", v) /\ FollowPriorAlarm
  \/ UserClaim
  \/ YieldOutput
  \/ CountOutput
  \/ MainCheck
  \/ MainCall
  \/ MainStore
  \/ MainFlag
  \/ AlarmCheck
  \/ AlarmCall
  \/ AlarmStore
  \/ AlarmFlag
  \/ PriorAlarmCheck
  \/ PriorAlarmCall
  \/ PriorAlarmStore
  \/ PriorAlarmFlag
  \/ CheckDone
  \/ BuildResult
  \/ PostSession

SpecShared == InitShared /\ [][NextShared]_vars

\* Chains of sessions under fair scheduling: a routine that claims in order
\* until try_claim fails; a (key, values) input arrives only for a key with no
\* element pending and no timer armed.  The main thread keeps running, an
\* armed re-invocation timer is delivered in the end (MainLive), and a started
\* Timer fires and runs initiate_checkpoint to its end (AlarmLive).
InitLive ==
  \E m \in 0..MaxNumOutputs :
    InitWith(m, "claim_all") /\ CodecIdle /\ CellIdle /\ NewPool(FALSE)

SeedLive ==
  \E v \in ElementAndRestriction :
    /\ element_state = EmptyList
    /\ ~timer_set
    /\ ProcessBegin("kv", v)
    /\ ForgetPriorAlarm

MainLive ==
  \/ \E v \in {NoValues} : ProcessBegin("timer", v) /\ ForgetPriorAlarm
  \/ UserClaim
  \/ YieldOutput
  \/ CountOutput
  \/ MainCheck
  \/ MainCall
  \/ MainStore
  \/ MainFlag
  \/ CheckDone
  \/ BuildResult
  \/ PostSession

AlarmLive ==
  \/ AlarmCheck
  \/ AlarmCall
  \/ AlarmStore
  \/ AlarmFlag

NextLive == SeedLive \/ MainLive \/ AlarmLive

SpecLive == InitLive /\ [][NextLive]_vars /\ WF_vars(MainLive) /\ WF_vars(AlarmLive)

\* ------------------------------------------------------------- stream codec runs
\* most writes of one run
MaxWrites == 2

Int64Max == TwoToMinus(63, 1)
Int64Min == MinusTwoTo(63)
Int32Max == TwoToMinus(31, 1)
Int32Min == MinusTwoTo(31)
Uint64Max == TwoToMinus(64, 1)
\* values written as varints: small ones, both signs, group boundaries, the
\* int64 boundaries, and -2^64, which write_var_int64 refuses
VarIntValues ==
  {FromSmall(0), FromSmall(0 - 1), FromSmall(63), FromSmall(128), FromSmall(0 - 10),
   TwoTo(35), MinusTwoTo(56), Int64Max, Int64Min, TwoToMinus(63, 3), MinusTwoTo(64)}
\* values written in the fixed-width formats; the last of each set is outside
\* the format's range
Int64Values == {FromSmall(0), FromSmall(0 - 1), FromSmall(42), Int64Max, Int64Min, TwoTo(63)}
Uint64Values == {FromSmall(0), FromSmall(47), Uint64Max, FromSmall(0 - 1)}
Int32Values == {FromSmall(0), FromSmall(0 - 1), FromSmall(36), Int32Max, Int32Min, TwoTo(31)}
\* doubles, as their IEEE-754 bit patterns: 6.25 and +inf
DoubleValues ==
  {[i \in IntBits |-> IF i \in {48, 51, 52, 62} THEN 1 ELSE 0],
   [i \in IntBits |-> IF i \in 52..62 THEN 1 ELSE 0]}
\* byte strings: '', 'def', and one whose length needs a two-byte varint
ByteStrings == {<<>>, <<100, 101, 102>>, [i \in 1..128 |-> 120]}
ByteValues == {0, 10, 255}

InitCodec ==
  /\ InitWith(0, "claim_all")
  /\ CellIdle
  /\ NewPool(FALSE)
  /\ out_data = <<>>
  /\ bc_count = 0
  /\ written = <<>>
  /\ in_data = <<>>
  /\ in_pos = 0
  /\ read_back = <<>>
  /\ codec_pc = "write"

CanWrite == codec_pc = "write" /\ Len(written) < MaxWrites
\* the same write on the OutputStream and on the ByteCountingOutputStream
Emit(op) ==
  /\ out_data' = OutputStreamWrite(out_data, op)
  /\ bc_count' = ByteCountingWrite(bc_count, op)
  /\ written' = Append(written, op)
  /\ UNCHANGED <<in_data, in_pos, read_back, codec_pc, sdfv, cellv, poolv>>
\* struct.error, or the ValueError of write_var_int64
WriteRaises ==
  /\ codec_pc' = "failed"
  /\ UNCHANGED <<out_data, bc_count, written, in_data, in_pos, read_back, sdfv, cellv, poolv>>

WriteBytes(b, nested) == CanWrite /\ Emit(WriteOp("write", Zero, b, nested))
WriteByte(val) == CanWrite /\ Emit(WriteOp("write_byte", Zero, <<val>>, FALSE))
WriteVarInt64(v) ==
  /\ CanWrite
  /\ IF VarIntWritable(v) THEN Emit(WriteOp("var_int64", v, <<>>, FALSE)) ELSE WriteRaises
WriteBigendianInt64(v) ==
  /\ CanWrite
  /\ IF InSignedRange(v, 8) THEN Emit(WriteOp("bigendian_int64", v, <<>>, FALSE))
     ELSE WriteRaises
WriteBigendianUint64(v) ==
  /\ CanWrite
  /\ IF InUnsignedRange(v, 8) THEN Emit(WriteOp("bigendian_uint64", v, <<>>, FALSE))
     ELSE WriteRaises
WriteBigendianInt32(v) ==
  /\ CanWrite
  /\ IF InSignedRange(v, 4) THEN Emit(WriteOp("bigendian_int32", v, <<>>, FALSE))
     ELSE WriteRaises
WriteBigendianDouble(v) == CanWrite /\ Emit(WriteOp("bigendian_double", v, <<>>, FALSE))

\* in_s = InputStream(out_s.get())
OpenInput ==
  /\ codec_pc = "write"
  /\ in_data' = out_data
  /\ in_pos' = 0
  /\ codec_pc' = "read"
  /\ UNCHANGED <<out_data, bc_count, written, read_back, sdfv, cellv, poolv>>

\* the next value is read with the primitive it was written with
NextRead == written[Len(read_back) + 1]
CanRead(kind) ==
  /\ codec_pc = "read"
  /\ Len(read_back) < Len(written)
  /\ NextRead.kind = kind
ReadValue(int, bytes) == [int |-> int, bytes |-> bytes]
Deliver(value, at) ==
  /\ read_back' = Append(read_back, value)
  /\ in_pos' = at
  /\ UNCHANGED <<out_data, bc_count, written, in_data, codec_pc, sdfv, cellv, poolv>>
ReadRaises ==
  /\ codec_pc' = "failed"
  /\ UNCHANGED <<out_data, bc_count, written, in_data, in_pos, read_back, sdfv, cellv, poolv>>

\* in_s.read(n) for a plain write of n bytes, in_s.read_all(True) for a nested one
ReadBytes ==
  /\ CanRead("write")
  /\ ~NextRead.nested
  /\ Deliver(ReadValue(Zero, read(in_data, in_pos, Len(NextRead.bytes))),
             in_pos + Len(NextRead.bytes))
ReadAllNested ==
  /\ CanRead("write")
  /\ NextRead.nested
  /\ LET r == read_var_int64(in_data, in_pos)
         size == BitsToNat(r.value, 0, 30)
     IN  IF r.ok THEN Deliver(ReadValue(Zero, read(in_data, r.pos, size)), r.pos + size)
         ELSE ReadRaises
ReadByte ==
  /\ CanRead("write_byte")
  /\ Deliver(ReadValue(Zero, read(in_data, in_pos, 1)), in_pos + 1)
ReadVarInt64 ==
  /\ CanRead("var_int64")
  /\ LET r == read_var_int64(in_data, in_pos)
     IN  IF r.ok THEN Deliver(ReadValue(r.value, <<>>), r.pos) ELSE ReadRaises
ReadBigendianInt64 ==
  /\ CanRead("bigendian_int64")
  /\ Deliver(ReadValue(Unpack(read(in_data, in_pos, 8), TRUE), <<>>), in_pos + 8)
ReadBigendianUint64 ==
  /\ CanRead("bigendian_uint64")
  /\ Deliver(ReadValue(Unpack(read(in_data, in_pos, 8), FALSE), <<>>), in_pos + 8)
ReadBigendianInt32 ==
  /\ CanRead("bigendian_int32")
  /\ Deliver(ReadValue(Unpack(read(in_data, in_pos, 4), TRUE), <<>>), in_pos + 4)
ReadBigendianDouble ==
  /\ CanRead("bigendian_double")
  /\ Deliver(ReadValue(Unpack(read(in_data, in_pos, 8), FALSE), <<>>), in_pos + 8)

NextCodec ==
  \/ \E b \in ByteStrings, nested \in BOOLEAN : WriteBytes(b, nested)
  \/ \E val \in ByteValues : WriteByte(val)
  \/ \E v \in VarIntValues : WriteVarInt64(v)
  \/ \E v \in Int64Values : WriteBigendianInt64(v)
  \/ \E v \in Uint64Values : WriteBigendianUint64(v)
  \/ \E v \in Int32Values : WriteBigendianInt32(v)
  \/ \E v \in DoubleValues : WriteBigendianDouble(v)
  \/ OpenInput
  \/ ReadBytes
  \/ ReadAllNested
  \/ ReadByte
  \/ ReadVarInt64
  \/ ReadBigendianInt64
  \/ ReadBigendianUint64
  \/ ReadBigendianInt32
  \/ ReadBigendianDouble

SpecCodec == InitCodec /\ [][NextCodec]_vars

\* ------------------------------------------------------------- metric cell runs
InitCell ==
  /\ InitWith(0, "claim_all")
  /\ CodecIdle
  /\ NewPool(FALSE)
  /\ cell_kind \in {"counter", "distribution"}
  /\ cell_state = DIRTY
  /\ cell_value = 0
  /\ cell_pc = "idle"
  /\ cell_calls = <<>>
  /\ cell_before = DIRTY
  /\ cell_ret = "none"
  /\ cell_modified = FALSE

\* a CellCommitState call completes: it is logged with the state it found
Completed(call) ==
  /\ cell_calls' = Logged(cell_calls, call)
  /\ cell_before' = cell_state

\* with self._lock: self._state = DIRTY
AfterModificationBody ==
  /\ cell_state' = DIRTY
  /\ cell_modified' = TRUE
  /\ Completed("after_modification")
  /\ UNCHANGED cell_ret

after_modification ==
  /\ AfterModificationBody
  /\ UNCHANGED <<cell_kind, cell_value, cell_pc, sdfv, codecv, poolv>>

AfterCommitUnconditional ==
  /\ cell_state' = CLEAN
  /\ Completed("after_commit")
  /\ UNCHANGED <<cell_kind, cell_value, cell_pc, cell_ret, cell_modified, sdfv, codecv, poolv>>
after_commit ==
  /\ cell_state' = IF cell_state = COMMITTING THEN CLEAN ELSE cell_state
  /\ Completed("after_commit")
  /\ UNCHANGED <<cell_kind, cell_value, cell_pc, cell_ret, cell_modified, sdfv, codecv, poolv>>

BeforeCommitAlwaysCommits ==
  /\ cell_state' = COMMITTING
  /\ cell_ret' = "True"
  /\ cell_modified' = FALSE
  /\ Completed("before_commit")
  /\ UNCHANGED <<cell_kind, cell_value, cell_pc, sdfv, codecv, poolv>>
before_commit ==
  /\ IF cell_state = CLEAN
     THEN /\ cell_ret' = "False"
          /\ UNCHANGED <<cell_state, cell_modified>>
     ELSE /\ cell_state' = COMMITTING
          /\ cell_ret' = "True"
          /\ cell_modified' = FALSE
  /\ Completed("before_commit")
  /\ UNCHANGED <<cell_kind, cell_value, cell_pc, sdfv, codecv, poolv>>

\* CounterCell.inc, under the cell's own lock: self.value += n, then
\* self.commit.after_modification(); the commit state's calls of other threads
\* do not take the cell's lock and come in between
IncValue(n) ==
  /\ cell_kind = "counter"
  /\ cell_pc = "idle"
  /\ cell_value + n <= MaxCellValue
  /\ cell_value' = cell_value + n
  /\ cell_pc' = "inc"
  /\ UNCHANGED <<cell_kind, cell_state, cell_calls, cell_before, cell_ret, cell_modified,
                 sdfv, codecv, poolv>>
IncAfterModification ==
  /\ cell_pc = "inc"
  /\ AfterModificationBody
  /\ cell_pc' = "idle"
  /\ UNCHANGED <<cell_kind, cell_value, sdfv, codecv, poolv>>

\* DistributionCell.update, under the cell's own lock:
\* self.commit.after_modification(), then self._update(value)
UpdateAfterModification ==
  /\ cell_kind = "distribution"
  /\ cell_pc = "idle"
  /\ cell_value < MaxCellValue
  /\ AfterModificationBody
  /\ cell_pc' = "update"
  /\ UNCHANGED <<cell_kind, cell_value, sdfv, codecv, poolv>>
UpdateData ==
  /\ cell_pc = "update"
  /\ cell_value' = cell_value + 1
  /\ cell_pc' = "idle"
  /\ UNCHANGED <<cell_kind, cell_state, cell_calls, cell_before, cell_ret, cell_modified,
                 sdfv, codecv, poolv>>

NextCell ==
  \/ after_modification
  \/ after_commit
  \/ before_commit
  \/ \E n \in 1..MaxCellValue : IncValue(n)
  \/ IncAfterModification
  \/ UpdateAfterModification
  \/ UpdateData

SpecCell == InitCell /\ [][NextCell]_vars


\* ------------------------------------------------------------- worker pool runs
\* start() serves the requests with a thread pool (line 60) and the servicer
\* takes no lock: the calls interleave statement by statement.  A process is
\* known by the order of its creation; worker_processes maps the registered
\* worker ids to processes.
InitPool ==
  /\ InitWith(0, "claim_all")
  /\ CodecIdle
  /\ CellIdle
  /\ \E mode \in BOOLEAN : NewPool(mode)

Request(call, id, ret) ==
  /\ pool_call' = call
  /\ pool_id' = id
  /\ pool_ret' = ret

\* lines 80-106: process mode, Popen succeeds; the process runs and is held by
\* the call's local worker_process, not yet registered
StartWorkerPopen(id) ==
  /\ use_process
  /\ Len(processes) < MaxProcesses
  /\ processes' = Append(processes, "running")
  /\ starting' = starting \cup {[worker_id |-> id, worker_process |-> Len(processes) + 1]}
  /\ Request("StartWorker", id, "none")
  /\ UNCHANGED <<use_process, worker_processes, kill_timers, stopping, communicating,
                 started, sdfv, codecv, cellv>>

\* lines 107 and 119: the process is registered under the request's worker id,
\* replacing what was registered there, and the response is returned
StartWorkerRegister(c) ==
  /\ c \in starting
  /\ starting' = starting \ {c}
  /\ worker_processes' =
       [i \in DOMAIN worker_processes \cup {c.worker_id} |->
          IF i = c.worker_id THEN c.worker_process ELSE worker_processes[i]]
  /\ started' = [started EXCEPT ![c.worker_id] = "process"]
  /\ Request("StartWorker", c.worker_id, "StartWorkerResponse")
  /\ UNCHANGED <<use_process, processes, kill_timers, stopping, communicating,
                 sdfv, codecv, cellv>>

\* lines 79-121: Popen (line 105, process mode) or the making and starting of
\* the worker thread (lines 109-117, thread mode) raises; the response carries
\* the error and nothing is registered
StartWorkerFails(id) ==
  /\ Request("StartWorker", id, "StartWorkerResponse(error)")
  /\ UNCHANGED <<use_process, worker_processes, processes, kill_timers, starting,
                 stopping, communicating, started, sdfv, codecv, cellv>>

\* lines 108-119: thread mode; a daemon thread runs the worker and no process
\* is registered
StartWorkerThread(id) ==
  /\ ~use_process
  /\ started' = [started EXCEPT ![id] = "thread"]
  /\ Request("StartWorker", id, "StartWorkerResponse")
  /\ UNCHANGED <<use_process, worker_processes, processes, kill_timers, starting,
                 stopping, communicating, sdfv, codecv, cellv>>

\* a worker process ends by itself
ProcessExits(p) ==
  /\ p \in 1..Len(processes)
  /\ processes[p] = "running"
  /\ processes' = [processes EXCEPT ![p] = "exited"]
  /\ UNCHANGED <<use_process, worker_processes, kill_timers, starting, stopping,
                 communicating, pool_call, pool_id, pool_ret, started, sdfv, codecv, cellv>>

\* lines 126-127: dict.pop(worker_id) raises KeyError for an id that is not
\* registered; for a registered one the process leaves the map and is held by
\* the call's local worker_process (a Popen object is truthy)
StopWorkerPop(id) ==
  /\ IF id \in DOMAIN worker_processes
     THEN /\ stopping' = stopping \cup {[worker_id |-> id, worker_process |-> worker_processes[id]]}
          /\ worker_processes' = [i \in DOMAIN worker_processes \ {id} |-> worker_processes[i]]
          /\ Request("StopWorker", id, "none")
     ELSE /\ Request("StopWorker", id, "KeyError")
          /\ UNCHANGED <<worker_processes, stopping>>
  /\ UNCHANGED <<use_process, processes, kill_timers, starting, communicating, started,
                 sdfv, codecv, cellv>>

\* lines 128-138: the kill Timer is started and communicate() is entered
StopWorkerTimer(c) ==
  /\ c \in stopping
  /\ stopping' = stopping \ {c}
  /\ communicating' = communicating \cup {c}
  /\ kill_timers' = kill_timers \cup {c.worker_process}
  /\ Request("StopWorker", c.worker_id, "none")
  /\ UNCHANGED <<use_process, worker_processes, processes, starting, started,
                 sdfv, codecv, cellv>>

\* lines 128-133: the Timer runs kill_worker_process; the OSError of killing a
\* process that has already ended is ignored
KillTimerFires(p) ==
  /\ p \in kill_timers
  /\ kill_timers' = kill_timers \ {p}
  /\ processes' = [processes EXCEPT ![p] = "exited"]
  /\ UNCHANGED <<use_process, worker_processes, starting, stopping, communicating,
                 pool_call, pool_id, pool_ret, started, sdfv, codecv, cellv>>

\* lines 138-139: communicate() returns to its call once the process has ended
StopWorkerReturn(c) ==
  /\ c \in communicating
  /\ processes[c.worker_process] = "exited"
  /\ communicating' = communicating \ {c}
  /\ Request("StopWorker", c.worker_id, "StopWorkerResponse")
  /\ started' = [started EXCEPT ![c.worker_id] = "stopped"]
  /\ UNCHANGED <<use_process, worker_processes, processes, kill_timers, starting,
                 stopping, sdfv, codecv, cellv>>

NextPool ==
  \/ \E id \in WorkerIds : StartWorkerPopen(id)
  \/ \E c \in starting : StartWorkerRegister(c)
  \/ \E id \in WorkerIds : StartWorkerFails(id)
  \/ \E id \in WorkerIds : StartWorkerThread(id)
  \/ \E p \in 1..MaxProcesses : ProcessExits(p)
  \/ \E id \in WorkerIds : StopWorkerPop(id)
  \/ \E c \in stopping : StopWorkerTimer(c)
  \/ \E p \in 1..MaxProcesses : KillTimerFires(p)
  \/ \E c \in communicating : StopWorkerReturn(c)

SpecPool == InitPool /\ [][NextPool]_vars

\* ------------------------------------------------------------- claims
ResultEmitted == \E i \in 1..Len(inv_out) : inv_out[i] = ResultItem
CallDone == pc = "idle" /\ outcome = "ok"
\* the outputs among the items the user routine produced
UserOutputs == SelectSeq(produced, LAMBDA x : x # Continuation)
IsPrefix(a, b) == Len(a) <= Len(b) /\ a = SubSeq(b, 1, Len(a))

\* C1: in every session tracker.checkpoint() is called at most once, under all
\* interleavings of the alarm thread and the main thread.
C1_CheckpointAtMostOnce == cp_calls <= 1

\* C2: when the Result is emitted, its residual_restriction is set if and only if
\* a checkpoint was performed in the session, and then it is the value the first
\* tracker.checkpoint() call returned.
C2_ResidualIffCheckpoint ==
  pc = "post" =>
    /\ (sdf_result.residual_restriction # None) <=> (cp_calls > 0)
    /\ cp_calls > 0 => sdf_result.residual_restriction = cp_first

\* C3: invoke_process_element yields at most one Result, nothing after it, the
\* user's outputs before it in the order produced; a session that ends without
\* error has yielded all of its outputs and then the Result.
C3_ResultLast ==
  LET n == Len(inv_out) IN
  /\ \A i \in 1..n : inv_out[i] = ResultItem => i = n
  /\ ~ResultEmitted => IsPrefix(inv_out, UserOutputs)
  /\ ResultEmitted => SubSeq(inv_out, 1, n - 1) = UserOutputs
  /\ (pc = "post" \/ CallDone) => ResultEmitted
  /\ fn_out = SelectSeq(inv_out, LAMBDA x : x # ResultItem)

C3_Witness == CallDone /\ Len(inv_out) >= 3 /\ inv_out[Len(inv_out)] = ResultItem

\* C4 as claimed: after a call whose Result has no residual, the element, the
\* restriction and the watermark_hold slot are all cleared, and a
\* positive-infinity hold is recorded.  (The hold is recorded by add_state on the
\* watermark_hold tag, line 198: it is the content of that slot.)
C4_AllThreeCleared ==
  (CallDone /\ ~Truthy(sdf_result.residual_restriction)) =>
    /\ element_state = EmptyList
    /\ restriction_state = EmptyList
    /\ watermark_hold_state = EmptyList
    /\ watermark_hold_state = WATERMARK_POS_INF

\* C4 amended: after a call whose Result has no residual, the element and the
\* restriction slot are cleared; the watermark_hold slot is not cleared, it holds
\* the positive-infinity hold.
C4_ClearedAndReleased ==
  (CallDone /\ ~Truthy(sdf_result.residual_restriction)) =>
    /\ element_state = EmptyList
    /\ restriction_state = EmptyList
    /\ watermark_hold_state = WATERMARK_POS_INF

\* a resumed session that ends with no residual: the slots it clears were set
C4_Witness ==
  /\ CallDone /\ ~Truthy(sdf_result.residual_restriction)
  /\ pre[1] # EmptyList /\ pre[2] # EmptyList /\ pre[3] = WATERMARK_NEG_INF

\* C5: after a call whose Result carries a residual, the element slot holds the
\* element processed, the restriction slot the Result's residual, the hold is
\* negative infinity and a re-invocation timer is armed.
C5_ResidualPersisted ==
  (CallDone /\ Truthy(sdf_result.residual_restriction)) =>
    /\ element_state = element
    /\ restriction_state = sdf_result.residual_restriction
    /\ watermark_hold_state = WATERMARK_NEG_INF
    /\ timer_set

\* a session whose residual differs from the restriction it started from, for
\* the falsy element
C5_Witness ==
  /\ CallDone /\ Truthy(sdf_result.residual_restriction)
  /\ sdf_result.residual_restriction # restriction
  /\ element = PyInt(0)
  /\ Len(fn_out) > 0

\* the outputs r, r+1, r+2 (as far as the range [r, 10) reaches)
ScenarioOutputs(r) == [i \in 1..(IF r + 3 <= 10 THEN 3 ELSE 10 - r) |-> PyInt(r + i - 1)]

\* C6: for an element with restriction [0, 10), max_num_outputs = 3, a routine
\* claiming in order until try_claim fails and no alarm firing, every call of the
\* chain (the seed call and each timer-driven resumption) completes; the sessions
\* start at 0, 3, 6, 9, output the next three positions and leave [3,10), [6,10),
\* [9,10); the last outputs 9 with no checkpoint, and the state is then cleared.
C6_Scenario ==
  ( /\ max_num_outputs = 3 /\ sdf = "claim_all" /\ orig = Range(0, 10)
    /\ ~alarm_in_chain /\ ~collision_in_chain
    /\ pc = "idle" /\ outcome \in {"ok", "error"} ) =>
    /\ outcome = "ok"
    /\ restriction \in {Range(0, 10), Range(3, 10), Range(6, 10), Range(9, 10)}
    /\ fn_out = ScenarioOutputs(restriction[2])
    /\ IF restriction[2] < 9
       THEN /\ sdf_result.residual_restriction = Range(restriction[2] + 3, 10)
            /\ restriction_state = Range(restriction[2] + 3, 10)
            /\ element_state = element
            /\ timer_set
       ELSE /\ sdf_result.residual_restriction = None
            /\ cp_calls = 0
            /\ element_state = EmptyList
            /\ restriction_state = EmptyList

\* the same for elements that are true in Python
C6_ScenarioTruthyElement == Truthy(element) => C6_Scenario

\* C7: over the chain of sessions of one element (the seed call and timer-driven
\* resumptions), no position is output twice, and once the state has been cleared
\* every position of the original restriction has been output exactly once.
C7_NoLossNoDuplicate ==
  ~collision_in_chain =>
    /\ \A p \in Positions : emitted[p] <= 1
    /\ (CallDone /\ element_state = EmptyList /\ restriction_state = EmptyList) =>
         \A p \in Positions : (orig[2] <= p /\ p < orig[3]) => emitted[p] = 1

\* C8: when tracker.check_done() fails the call ends with that error, no Result
\* is emitted, and state and timers are as they were before the call.
C8_CheckDoneFails ==
  /\ [][(pc = "exhausted" /\ ~CheckDoneOk(tracker) /\ pc' # "exhausted") =>
          (pc' = "idle" /\ outcome' = "error" /\ error' = "ValueError")]_vars
  /\ [](error = "ValueError" =>
          (pc = "idle" /\ outcome = "error" /\ ~ResultEmitted /\ store = pre))

\* a resumed session (state set, outputs yielded) whose check_done() failed
C8_Witness ==
  /\ pc = "idle" /\ error = "ValueError"
  /\ Len(fn_out) > 0
  /\ pre[1] # EmptyList

\* position of the first ProcessContinuation among the items produced (0: none)
FirstMarker ==
  IF \E i \in 1..Len(produced) : produced[i] = Continuation
  THEN CHOOSE i \in 1..Len(produced) :
         /\ produced[i] = Continuation
         /\ \A j \in 1..(i - 1) : produced[j] # Continuation
  ELSE 0

\* C9: when the routine produces an item after a ProcessContinuation, the session
\* aborts with an assertion failure; that item is not yielded and no Result is
\* emitted.
C9_ContinuationLast ==
  (FirstMarker > 0 /\ Len(produced) > FirstMarker) =>
    /\ pc = "got" \/ (pc = "idle" /\ outcome = "error" /\ error = "AssertionError")
    /\ ~ResultEmitted
    /\ inv_out = SubSeq(produced, 1, FirstMarker - 1)
    /\ fn_out = inv_out

\* an output, a marker, and one more item: the session has aborted
C9_Witness ==
  /\ pc = "idle" /\ error = "AssertionError"
  /\ FirstMarker = 2 /\ Len(produced) = 3

\* C10: the Result of a session that ended with a ProcessContinuation carries the
\* marker in process_continuation; with no marker the field is empty.
C10_ResultCarriesContinuation ==
  pc = "post" => sdf_result.process_continuation = process_continuation

\* the writes of a run whose value has been read back
ReadBackIndices == 1..Len(read_back)

\* C11: signed 64-bit integers written with write_var_int64 and read back with
\* read_var_int64 come back the same and in the same order, the boundary values
\* -2^63 and 2^63-1 and negative numbers included.
C11_VarIntRoundTrip ==
  \A i \in ReadBackIndices :
    written[i].kind = "var_int64" => read_back[i].int = written[i].int

\* -2^63 and then 2^63-1 were written as varints and both have been read back
C11_Witness ==
  /\ Len(read_back) = 2
  /\ written[1] = WriteOp("var_int64", Int64Min, <<>>, FALSE)
  /\ written[2] = WriteOp("var_int64", Int64Max, <<>>, FALSE)

FixedWidthKinds == {"bigendian_int32", "bigendian_int64", "bigendian_uint64"}
FixedWidth(kind) == IF kind = "bigendian_int32" THEN 4 ELSE 8

\* C12: int32, int64 and uint64 values written big-endian read back the same,
\* the range boundaries included, and each such write adds exactly 4 bytes
\* (32-bit) or 8 bytes (64-bit) to the stream.
C12_FixedWidthRoundTrip ==
  /\ [](\A i \in ReadBackIndices :
          written[i].kind \in FixedWidthKinds => read_back[i].int = written[i].int)
  /\ [][(Len(written') = Len(written) + 1
           /\ written'[Len(written')].kind \in FixedWidthKinds) =>
          Len(out_data') = Len(out_data) + FixedWidth(written'[Len(written')].kind)]_vars

\* -2^31 as int32 and 2^64-1 as uint64 were written and both have been read back
C12_Witness ==
  /\ Len(read_back) = 2
  /\ written[1] = WriteOp("bigendian_int32", Int32Min, <<>>, FALSE)
  /\ written[2] = WriteOp("bigendian_uint64", Uint64Max, <<>>, FALSE)
  /\ Len(out_data) = 12

\* C13: after every write the ByteCountingOutputStream's count is the number of
\* bytes the OutputStream holds after the same writes; a nested write counts the
\* payload and its length prefix (one byte below 128 bytes of payload, two from
\* there to 16383).
C13_ByteCount ==
  /\ bc_count = Len(out_data)
  /\ (Len(written) = 1 /\ written[1].kind = "write" /\ written[1].nested) =>
       bc_count = Len(written[1].bytes) + (IF Len(written[1].bytes) < 128 THEN 1 ELSE 2)

\* a varint and then a nested write of 128 bytes have been counted
C13_Witness ==
  /\ Len(written) = 2
  /\ written[1].kind = "var_int64"
  /\ written[2].kind = "write" /\ written[2].nested /\ Len(written[2].bytes) = 128
  /\ bc_count >= 131

LastCalls(n) == SubSeq(cell_calls, Len(cell_calls) - n + 1, Len(cell_calls))

\* C14: before_commit returns False exactly when it found the state CLEAN, and
\* leaves it CLEAN; otherwise it returns True and sets COMMITTING.  Right after
\* before_commit the state is never DIRTY; before_commit then after_commit with
\* no call in between leave CLEAN, and a before_commit that follows returns
\* False.
C14_BeforeCommit ==
  /\ (Len(cell_calls) >= 1 /\ LastCalls(1) = <<"before_commit">>) =>
       /\ cell_ret = "False" <=> cell_before = CLEAN
       /\ cell_ret = "True" <=> cell_before # CLEAN
       /\ cell_before = CLEAN => cell_state = CLEAN
       /\ cell_before # CLEAN => cell_state = COMMITTING
       /\ cell_state # DIRTY
  /\ (Len(cell_calls) >= 2 /\ LastCalls(2) = <<"before_commit", "after_commit">>) =>
       cell_state = CLEAN
  /\ (Len(cell_calls) >= 3
        /\ LastCalls(3) = <<"before_commit", "after_commit", "before_commit">>) =>
       cell_ret = "False"

\* a modified cell was committed and asked again: the second before_commit
\* returned False
C14_Witness ==
  /\ cell_value > 0
  /\ cell_calls = <<"before_commit", "after_commit", "before_commit">>
  /\ cell_ret = "False"
  /\ cell_state = CLEAN

\* C15: under every interleaving the state is CLEAN only if no
\* after_modification completed since the last before_commit that returned
\* True; a modification made during a commit leaves the cell DIRTY after
\* after_commit.
C15_ConservativeDirty ==
  /\ cell_state = CLEAN => ~cell_modified
  /\ (Len(cell_calls) >= 1 /\ LastCalls(1) = <<"after_commit">> /\ cell_modified) =>
       cell_state = DIRTY

\* a counter was incremented between before_commit and after_commit
C15_Witness ==
  /\ cell_kind = "counter" /\ cell_pc = "idle" /\ cell_value > 0
  /\ cell_calls = <<"before_commit", "after_modification", "after_commit">>
  /\ cell_ret = "True"
  /\ cell_state = DIRTY

\* the session is running and its alarm has not fired
RunningAlone == pc # "idle" /\ pc_alarm = "waiting"

\* C16: within one thread initiate_checkpoint is idempotent: once a checkpoint
\* has been taken in the session, a later call returns without calling
\* tracker.checkpoint() again and without changing the captured residual.
C16_Idempotent ==
  /\ [][(pc = "ic_check" /\ Truthy(checkpoint_state.checkpointed) /\ pc' # "ic_check") =>
          /\ pc' = "pull"
          /\ cp_calls' = cp_calls
          /\ tracker' = tracker
          /\ checkpoint_state' = checkpoint_state]_vars
  /\ [](RunningAlone =>
          /\ cp_calls <= 1
          /\ Truthy(checkpoint_state.checkpointed) =>
               checkpoint_state.residual_restriction = cp_first)

\* the output limit was hit and then a marker arrived: the second
\* initiate_checkpoint returned with the one checkpoint of the session in place
C16_Witness ==
  /\ pc = "pull" /\ pc_alarm = "waiting"
  /\ max_num_outputs > 0 /\ output_count >= max_num_outputs
  /\ process_continuation = Continuation
  /\ cp_calls = 1
  /\ checkpoint_state.residual_restriction = cp_first

\* C17: in a session that ends without an assertion failure check_done() is
\* called exactly once, after the user routine is exhausted and before the
\* Result is emitted, with or without a checkpoint.
C17_CheckDoneOnce ==
  /\ check_done_calls <= 1
  /\ check_done_calls = 1 => pc \in {"build", "post", "idle"}
  /\ ResultEmitted => check_done_calls = 1
  /\ (pc = "idle" /\ (outcome = "ok" \/ error = "ValueError")) => check_done_calls = 1

\* a session that took a checkpoint has ended with its Result
C17_Witness ==
  /\ CallDone
  /\ ResultEmitted
  /\ cp_calls >= 1
  /\ Len(fn_out) >= 1
  /\ check_done_calls = 1

MarkerFree == \A i \in 1..Len(produced) : produced[i] # Continuation

\* C18: with max_num_outputs = N, no alarm and no marker, tracker.checkpoint()
\* is not called before the N-th output was yielded and has been called when
\* the routine is asked for an (N+1)-th; with max_num_outputs unset the count
\* triggers no checkpoint.
C18_CheckpointAtLimit ==
  (RunningAlone /\ MarkerFree) =>
    /\ max_num_outputs > 0 =>
         /\ cp_calls >= 1 => Len(fn_out) >= max_num_outputs
         /\ (pc = "pull" /\ output_count >= max_num_outputs) => cp_calls >= 1
    /\ max_num_outputs = 0 => (cp_calls = 0 /\ ic_site # "limit")

\* two outputs were yielded with a limit of two, and the checkpoint is taken
\* before the routine is resumed
C18_Witness ==
  /\ RunningAlone /\ MarkerFree
  /\ pc = "pull"
  /\ max_num_outputs = 2 /\ output_count = 2 /\ Len(fn_out) = 2
  /\ cp_calls = 1

\* what the session's tracker has not claimed of the session's restriction
Unclaimed ==
  Range(IF tracker.cur = NoPos THEN restriction[2] ELSE tracker.cur + 1, restriction[3])

\* C19: a ProcessContinuation makes invoke_process_element call
\* initiate_checkpoint before the routine is asked for anything more, so the
\* Result carries the restriction left unclaimed at the marker; the marker is
\* not yielded to the caller and is not counted as an output.
C19_MarkerCheckpoints ==
  /\ (pc = "pull" /\ FirstMarker > 0) => cp_calls >= 1
  /\ (pc = "post" /\ FirstMarker > 0) => sdf_result.residual_restriction = Unclaimed
  /\ \A i \in 1..Len(inv_out) : inv_out[i] # Continuation
  /\ \A i \in 1..Len(fn_out) : fn_out[i] # Continuation
  /\ pc \notin {"idle", "yielded"} => output_count = Len(fn_out)
  /\ pc = "yielded" => output_count + 1 = Len(fn_out)

\* C19 for the sessions whose alarm has not fired
C19_MarkerCheckpointsAlone == RunningAlone => C19_MarkerCheckpoints

\* C20: ProcessFn.process yields the items of invoke_process_element in their
\* order, except the Result, which it keeps and never yields.
C20_ProcessReyields ==
  /\ fn_out = SelectSeq(inv_out, LAMBDA x : x # ResultItem)
  /\ \A i \in 1..Len(fn_out) : fn_out[i] # ResultItem
  /\ pc = "post" => (ResultEmitted /\ inv_out[Len(inv_out)] = ResultItem)

\* two outputs and the Result came from the session; the two outputs were yielded
C20_Witness ==
  /\ CallDone
  /\ Len(inv_out) = 3 /\ inv_out[3] = ResultItem
  /\ fn_out = SubSeq(inv_out, 1, 2)
\* C21: during a ProcessFn.process call the element, restriction and
\* watermark_hold slots and the timers stay as the call found them while the
\* session's outputs are yielded; every write, clear and timer arming of the
\* call is made only after the session's Result has been received, the Result
\* being the last item of the session.
C21_WritesAfterResult ==
  /\ [](pc # "idle" => store = pre)
  /\ [][(store' # store /\ pc # "idle") =>
          (pc = "post" /\ ResultEmitted /\ inv_out[Len(inv_out)] = ResultItem)]_vars

\* a call that yielded outputs has ended and has changed the state
C21_Witness == CallDone /\ Len(fn_out) >= 1 /\ store # pre

\* a timer-driven call that found the element slot empty has ended
EmptyTimerCall == call_kind = "timer" /\ pre[1] = EmptyList /\ pc = "idle"

\* what such a call leaves alone: no item was pulled from the user routine, no
\* session ran, the state is as the call found it and no timer was armed
NothingDone ==
  /\ produced = <<>>
  /\ inv_out = <<>>
  /\ fn_out = <<>>
  /\ check_done_calls = 0
  /\ store = pre
  /\ set_timer_calls = 0

\* C22: a timer-driven ProcessFn.process call (a bare key) that finds the
\* element state empty fails with an assertion, without creating a tracker,
\* without invoking the user routine, without changing any state and without
\* arming a timer.
C22_EmptyTimerCallAsserts ==
  EmptyTimerCall => (outcome = "error" /\ error = "AssertionError" /\ NothingDone)

\* C22, the part that holds: the call fails, by the read of the unbound local
\* of line 162, and does nothing else
C22_EmptyTimerCallFails ==
  EmptyTimerCall => (outcome = "error" /\ error = "UnboundLocalError" /\ NothingDone)

\* C23: a (key, values) input delivered while the key and window hold a
\* pending element is never silently discarded: the call fails at once, and no
\* session runs on the stored element and residual.  Stated for the stored
\* elements that line 153 takes as pending.
C23_CollisionFailsLoudly ==
  (call_kind = "kv" /\ Truthy(pre[1])) =>
    (pc = "idle" /\ outcome = "error" /\ NothingDone)

\* the alarm thread is past the flag test and has tracker.checkpoint() or the
\* write of the residual (line 299) before it, holding no lock
AlarmAtTracker == pc_alarm \in {"a_call", "a_store"}

\* the main thread has before it a try_claim (pull), a tracker.checkpoint() or
\* the write of the residual (ic_call, ic_store), check_done (exhausted), or the
\* read of the residual (build)
MainAtTracker == pc \in {"pull", "ic_call", "ic_store", "exhausted", "build"}

\* C24: during a session the checkpoint flag and its lock are the only state
\* both threads touch: the alarm thread is never at the tracker or at the
\* captured residual while the main thread is using them.
C24_TrackerSingleOwner == ~(AlarmAtTracker /\ MainAtTracker)

\* the chain has ended: the last session left no residual, the element and
\* restriction slots are cleared, the hold is released, no timer is armed
ChainCleared ==
  /\ CallDone
  /\ sdf_result = NoResult
  /\ element_state = EmptyList
  /\ restriction_state = EmptyList
  /\ watermark_hold_state = WATERMARK_POS_INF
  /\ ~timer_set

\* C25: for an element with a finite restriction, a routine that stops once a
\* claim is refused and a timer facility that re-delivers every armed timer,
\* every started call is followed by the end of its chain: a session with no
\* residual, the state cleared, the hold released and no timer armed; for
\* every max_num_outputs and every firing time of the alarm.  Stated for the
\* elements that line 153 takes as pending once stored.
C25_ChainTerminates == (outcome = "running" /\ Truthy(element)) ~> ChainCleared

\* C25, the part that holds: every started call ends
C25_CallEnds == (outcome = "running") ~> (pc = "idle")

\* C26: after every ProcessFn.process call that ends without error the element
\* slot holds a value iff the restriction slot holds a value, iff the hold
\* last recorded is negative infinity, iff the call armed a re-invocation
\* timer; a call whose Result has no residual arms no timer.
C26_StateConsistent ==
  CallDone =>
    /\ (element_state # EmptyList) <=> (restriction_state # EmptyList)
    /\ (restriction_state # EmptyList) <=> (watermark_hold_state = WATERMARK_NEG_INF)
    /\ (watermark_hold_state = WATERMARK_NEG_INF) <=> (set_timer_calls = 1)
    /\ set_timer_calls = 1 => timer_set
    /\ sdf_result = NoResult => set_timer_calls = 0

\* a call has ended leaving a residual for the falsy element 0
C26_Witness == CallDone /\ set_timer_calls = 1 /\ element_state = PyInt(0)

\* C27: after a session has left a residual for element e, the next
\* timer-driven call is a resumption that runs e against exactly the persisted
\* residual, for every e, the falsy ones included: the call is not taken for a
\* seed call, and its session has the stored element and the stored residual.
C27_FalsyElementResumes ==
  (call_kind = "timer" /\ pre[1] # EmptyList /\ pre[2] # EmptyList) =>
    /\ error # "UnboundLocalError"
    /\ outcome \in {"running", "ok"} => (element = pre[1] /\ restriction = pre[2])
    /\ pc = "idle" => ~NothingDone

\* C27, the part that holds: the same for the elements that are truthy
C27_TruthyElementResumes == Truthy(pre[1]) => C27_FalsyElementResumes

\* check_done() has run and the Result has been built: the session has ended
SessionEnded == pc = "post" \/ CallDone

\* C28: the duration alarm of a session has no effect once the session has
\* ended: from then on, until the next call starts a session,
\* tracker.checkpoint() is not called on the session's tracker.
C28_AlarmDeadAfterEnd == [][(SessionEnded /\ pc' # "pull") => cp_calls' = cp_calls]_vars

\* C29: sessions that share one SDFProcessElementInvoker are isolated.  A
\* step of the Timer of the session before leaves the running session's
\* tracker, checkpoint_state, checkpoint() count and Result alone; a session
\* starts unmarked on a tracker of its own, whatever checkpoint the session
\* before took; and a session that has no output limit and whose own Timer
\* has not fired is never marked, its tracker is never checkpointed and its
\* Result has no residual.
C29_SessionsIsolated ==
  /\ [][(priorv' # priorv /\ pc' = pc) =>
          UNCHANGED <<tracker, checkpoint_state, cp_calls, sdf_result, inv_out>>]_vars
  /\ [][(pc = "idle" /\ pc' = "pull") =>
          /\ checkpoint_state' = NewCheckpointState
          /\ tracker' = NewTracker(restriction')
          /\ cp_calls' = 0
          /\ sdf_result' = NoResult]_vars
  /\ []((RunningAlone /\ max_num_outputs = 0) =>
          /\ ~Truthy(checkpoint_state.checkpointed)
          /\ cp_calls = 0
          /\ tracker.stop = restriction[3]
          /\ sdf_result = NoResult)

\* the Timer of the session before has run initiate_checkpoint to its end,
\* marking its own session, while the next session is running unmarked
C29_Witness ==
  /\ pc \in {"pull", "got", "exhausted", "build", "post"}
  /\ prior_pc_alarm = "done"
  /\ Truthy(prior_checkpoint_state.checkpointed)
  /\ prior_tracker.stop < tracker.stop
  /\ ~Truthy(checkpoint_state.checkpointed)

\* the last step of a call was the end of a StopWorker call
StopWorkerEnded == pool_call = "StopWorker" /\ pool_ret # "none"

\* C30: StopWorker returns a StopWorkerResponse without raising for every
\* worker id (started in process mode, started in thread mode, never started,
\* already stopped), and after it the id is not in the registered-process map.
C30_StopWorkerReturns ==
  StopWorkerEnded =>
    (pool_ret = "StopWorkerResponse" /\ pool_id \notin DOMAIN worker_processes)

\* C30, the part that holds: a StopWorker call ends with the response or with
\* KeyError, and a step of StopWorker raises KeyError exactly when the id has no
\* process registered (never started, started in thread mode, popped by an
\* earlier StopWorker); the step of a StopWorker call that pops takes the id
\* out of the map, and no process is both registered and waited for
C30_StopRegisteredWorkerReturns ==
  /\ [](StopWorkerEnded => pool_ret \in {"StopWorkerResponse", "KeyError"})
  /\ [](\A c \in stopping \cup communicating :
          \A i \in DOMAIN worker_processes : worker_processes[i] # c.worker_process)
  /\ [][\A id \in WorkerIds :
          StopWorkerPop(id) =>
            /\ (pool_ret' = "KeyError") = (id \notin DOMAIN worker_processes)
            /\ id \notin DOMAIN worker_processes']_vars

====
